---------------------------- MODULE Spec2Model ----------------------------
(***************************************************************************)
(* umoci repack / umoci insert against an OCI image store.                 *)
(*                                                                         *)
(* The store is a digest-keyed blob map plus a name-keyed reference map.   *)
(* Each command is a sequence of steps, one per store operation, so that   *)
(* a failure of any operation and a kill between any two operations are    *)
(* states of the model.                                                    *)
(***************************************************************************)
EXTENDS Naturals, Sequences, FiniteSets, TLC

VARIABLES blobs,       \* digest -> stored bytes (the blob directory)
          refs,        \* name -> descriptor (the references directory)
          proc,        \* per process: the running command's position and locals
          runs,        \* number of command invocations started so far
          concurrent,  \* whether invocations may overlap
          bundle       \* the unpacked bundle: mtree snapshot, rootfs, layer made of it

vars == <<blobs, refs, proc, runs, concurrent, bundle>>

\* Number of command invocations explored.
MaxRuns == 2

Procs == {"p1", "p2"}

-----------------------------------------------------------------------------
(* Media types, digests, descriptors *)

MediaTypeImageManifest == "application/vnd.oci.image.manifest.v1+json"
MediaTypeImageIndex == "application/vnd.oci.image.index.v1+json"
MediaTypeImageConfig == "application/vnd.oci.image.config.v1+json"
MediaTypeImageLayer == "application/vnd.oci.image.layer.v1.tar+gzip"

\* Content addressing: the digest names exactly the bytes hashed (no collisions).
Digest(c) == <<"sha256", c>>

\* The digest value of a descriptor that was never filled in.
EmptyDigest == <<"", [kind |-> "none"]>>

NoBlob == [kind |-> "none"]

\* Byte count of a blob's serialized form.
Size(c) ==
    CASE c.kind = "layer" -> IF c.compressed THEN 1 ELSE 2
      [] c.kind = "config" -> 3 + Len(c.diffIDs) + Len(c.history)
      [] c.kind = "manifest" -> 4 + Len(c.layers)
      [] c.kind = "index" -> 5 + Len(c.manifests)
      [] OTHER -> 0

Descriptor(mt, c) == [mediaType |-> mt, digest |-> Digest(c), size |-> Size(c)]

NoDescriptor == [mediaType |-> "", digest |-> EmptyDigest, size |-> 0]

\* The digest of a layer's uncompressed content.
DiffID(layer) == Digest([layer EXCEPT !.compressed = FALSE])

History(created, createdBy, author, comment, emptyLayer) ==
    [created |-> created, created_by |-> createdBy, author |-> author,
     comment |-> comment, empty_layer |-> emptyLayer]

NoHistory == History("", "", "", "", TRUE)

-----------------------------------------------------------------------------
(* The CAS engine: blob store and reference store *)

HasBlob(bl, d) == d \in DOMAIN bl

\* Put: the write is skipped when the digest is already stored.
PutBlob(bl, c) ==
    IF HasBlob(bl, Digest(c)) THEN bl
    ELSE [d \in DOMAIN bl \cup {Digest(c)} |-> IF d \in DOMAIN bl THEN bl[d] ELSE c]

DeleteBlob(bl, d) == [x \in DOMAIN bl \ {d} |-> bl[x]]

HasReference(rf, name) == name \in DOMAIN rf

\* Delete: absence is not an error.
DeleteReference(rf, name) == [n \in DOMAIN rf \ {name} |-> rf[n]]

\* Put: atomically creates or replaces.
PutReference(rf, name, desc) ==
    [n \in DOMAIN rf \cup {name} |-> IF n = name THEN desc ELSE rf[n]]

UpdateReference(rf, name, desc) == PutReference(rf, name, desc)

\* Every manifest chain a descriptor designates: one for a manifest, one per
\* listed manifest for a manifest list, none for anything else.
RECURSIVE PathsFrom(_, _, _)
PathsFrom(bl, desc, fuel) ==
    IF desc.mediaType = MediaTypeImageManifest THEN << <<desc>> >>
    ELSE IF desc.mediaType = MediaTypeImageIndex /\ HasBlob(bl, desc.digest) /\ fuel > 0
    THEN LET ms == bl[desc.digest].manifests
             Walk[i \in 0..Len(ms)] ==
                 IF i = 0 THEN <<>>
                 ELSE Walk[i - 1] \o
                      [j \in 1..Len(PathsFrom(bl, ms[i], fuel - 1)) |->
                          <<desc>> \o PathsFrom(bl, ms[i], fuel - 1)[j]]
         IN Walk[Len(ms)]
    ELSE <<>>

ResolveReference(bl, rf, name) ==
    IF HasReference(rf, name) THEN PathsFrom(bl, rf[name], 2) ELSE <<>>

-----------------------------------------------------------------------------
(* The image store the commands start from *)

BaseLayer == [kind |-> "layer", id |-> "base", compressed |-> TRUE]

BaseConfig ==
    [kind |-> "config",
     diffIDs |-> <<DiffID(BaseLayer)>>,
     history |-> <<History("now+0", "unpack", "", "", FALSE),
                   History("now+0", "config", "", "", TRUE)>>]

BaseManifest ==
    [kind |-> "manifest",
     config |-> Descriptor(MediaTypeImageConfig, BaseConfig),
     layers |-> <<Descriptor(MediaTypeImageLayer, BaseLayer)>>]

ScratchConfig == [kind |-> "config", diffIDs |-> <<>>, history |-> <<>>]

ScratchManifest ==
    [kind |-> "manifest",
     config |-> Descriptor(MediaTypeImageConfig, ScratchConfig),
     layers |-> <<>>]

BaseIndex ==
    [kind |-> "index",
     manifests |-> <<Descriptor(MediaTypeImageManifest, BaseManifest),
                     Descriptor(MediaTypeImageManifest, ScratchManifest)>>]

InitBlobs ==
    PutBlob(PutBlob(PutBlob(PutBlob(PutBlob(PutBlob(<<>>,
        BaseLayer), BaseConfig), BaseManifest), ScratchConfig), ScratchManifest), BaseIndex)

Tags == {"latest", "list", "new"}

InitRefs ==
    [n \in {"latest", "list"} |->
        IF n = "latest" THEN Descriptor(MediaTypeImageManifest, BaseManifest)
        ELSE Descriptor(MediaTypeImageIndex, BaseIndex)]

\* The layers a command may generate from its input files.
NewLayers == {[kind |-> "layer", id |-> "x", compressed |-> FALSE],
              [kind |-> "layer", id |-> "y", compressed |-> TRUE]}

-----------------------------------------------------------------------------
(* The bundle: a root filesystem and the mtree snapshot taken when it was
   unpacked *)

Paths == {"d", "d/f", "e"}

\* Lexicographic path order.
PathOrder == <<"d", "d/f", "e">>

Parent(path) == IF path = "d/f" THEN "d" ELSE ""

\* What a path can hold: a file with one of two contents, a directory, a
\* symbolic link.
Nodes ==
    {[type |-> "file", data |-> "1"], [type |-> "file", data |-> "2"],
     [type |-> "dir", data |-> ""], [type |-> "link", data |-> "1"]}

\* A tree holds a path only under a directory.
ValidTree(t) ==
    \A path \in DOMAIN t :
        Parent(path) # "" => (Parent(path) \in DOMAIN t /\ t[Parent(path)].type = "dir")

Trees == {t \in UNION {[D -> Nodes] : D \in SUBSET Paths} : ValidTree(t)}

\* The keywords an unpack records for every path.
MtreeKeywords == {"type", "data"}

\* The mtree manifest of a tree: per path, the value of each keyword.
MtreeSpec(tree, keywords) ==
    [keywords |-> keywords,
     entries |-> [path \in DOMAIN tree |-> [k \in keywords |-> tree[path][k]]]]

NoBundle ==
    [pc |-> "none", base |-> <<>>, spec |-> MtreeSpec(<<>>, {}), rootfs |-> <<>>,
     readded |-> {}, diffs |-> <<>>, layer |-> <<>>, replayed |-> <<>>]

\* A bundle as unpack leaves it: the rootfs, and the snapshot of that rootfs.
UnpackedBundle(tree) ==
    [NoBundle EXCEPT !.pc = "edit", !.base = tree,
                     !.spec = MtreeSpec(tree, MtreeKeywords), !.rootfs = tree]

\* How mtree classifies one path of the rootfs against the snapshot, over
\* the keywords compared.
DiffKind(entries, rootfs, keywords, path) ==
    IF path \in DOMAIN entries /\ path \in DOMAIN rootfs
    THEN IF "type" \in keywords /\ entries[path].type # rootfs[path].type
         THEN "TypeChanged"
         ELSE IF \E k \in keywords : entries[path][k] # rootfs[path][k]
         THEN "Modified"
         ELSE "Unchanged"
    ELSE IF path \in DOMAIN rootfs THEN "Added"
    ELSE IF path \in DOMAIN entries THEN "Deleted"
    ELSE "Unchanged"

\* mtree.Check: the changeset, one record per path that differs, in path order.
MtreeCheck(rootfs, spec, keywords) ==
    SelectSeq([i \in 1..Len(PathOrder) |->
                  [path |-> PathOrder[i],
                   kind |-> DiffKind(spec.entries, rootfs, keywords, PathOrder[i])]],
              LAMBDA r : r.kind # "Unchanged")

NoNode == [type |-> "", data |-> ""]

Whiteout(path) == [path |-> path, whiteout |-> TRUE, node |-> NoNode]

FullEntry(path, node) == [path |-> path, whiteout |-> FALSE, node |-> node]

\* The layer entries of one changeset record.
LayerEntries(rootfs, diff) ==
    CASE diff.kind = "Deleted" -> <<Whiteout(diff.path)>>
      [] diff.kind = "TypeChanged" ->
           <<Whiteout(diff.path), FullEntry(diff.path, rootfs[diff.path])>>
      [] OTHER -> <<FullEntry(diff.path, rootfs[diff.path])>>

\* layerdiff.GenerateLayer: the entries of every record, in changeset order.
GenerateLayer(rootfs, diffs) ==
    LET Walk[i \in 0..Len(diffs)] ==
            IF i = 0 THEN <<>> ELSE Walk[i - 1] \o LayerEntries(rootfs, diffs[i])
    IN Walk[Len(diffs)]

Under(path, top) == path = top \/ Parent(path) = top

\* Unpacking one layer entry over a tree: a whiteout removes the path and
\* what is under it, a full entry creates or replaces the path.
ApplyEntry(tree, e) ==
    IF e.whiteout
    THEN [x \in {y \in DOMAIN tree : ~Under(y, e.path)} |-> tree[x]]
    ELSE [x \in DOMAIN tree \cup {e.path} |-> IF x = e.path THEN e.node ELSE tree[x]]

ApplyLayer(tree, layer) ==
    LET Walk[i \in 0..Len(layer)] ==
            IF i = 0 THEN tree ELSE ApplyEntry(Walk[i - 1], layer[i])
    IN Walk[Len(layer)]

-----------------------------------------------------------------------------
(* Per-process command state *)

\* The closable resources a command holds.
Handles == {"engine", "mfh", "reader", "manifestBlob", "configBlob"}

NoMeta == [author |-> "", comment |-> "", created |-> "", created_by |-> ""]

IdleProc ==
    [pc |-> "idle", cmd |-> "none", from |-> "", tag |-> "", meta |-> NoMeta,
     fromDescriptor |-> NoDescriptor, paths |-> <<>>,
     layer |-> NoBlob, layerDescriptor |-> NoDescriptor,
     manifest |-> NoBlob, config |-> NoBlob, history |-> NoHistory,
     newConfig |-> NoBlob, newManifest |-> NoBlob, newDescriptor |-> NoDescriptor,
     ret |-> "none", err |-> "", log |-> <<>>,
     pre |-> [blobs |-> <<>>, refs |-> <<>>],
     opened |-> {}, deferred |-> {}, closed |-> [h \in Handles |-> 0],
     refOrder |-> 0]

Logged(pr, op, ok) == [pr EXCEPT !.log = Append(@, [op |-> op, ok |-> ok])]

\* x, err := open(...); if err != nil { return err }; defer x.Close()
OpenDeferred(pr, h) ==
    [pr EXCEPT !.opened = @ \cup {h}, !.deferred = @ \cup {h}]

\* x.Close()
Close(pr, h) == [pr EXCEPT !.closed[h] = @ + 1]

\* return: the deferred Close calls run, one per defer statement executed.
Return(pr, err) ==
    [pr EXCEPT !.pc = "done", !.ret = IF err = "" THEN "ok" ELSE "err", !.err = err,
               !.closed = [h \in Handles |->
                              IF h \in pr.deferred THEN pr.closed[h] + 1
                              ELSE pr.closed[h]]]

Stopped(p) == proc[p].pc \in {"idle", "done", "killed"}

\* One invocation after the other in one process, or, when the store is
\* shared by concurrent writers, one invocation in each process.
CanStart(p) ==
    /\ runs < MaxRuns
    /\ Stopped(p)
    /\ IF concurrent THEN proc[p].pc = "idle" ELSE p = "p1"

\* Concurrent writers are given the same image and the same tag.
Invocations(args) ==
    IF concurrent
    THEN {a \in args : a.tag = "latest" /\ \A f \in DOMAIN a \ {"meta"} : a[f] # ""}
    ELSE args

\* The place of a reference write among the reference writes of all
\* processes: one past the latest so far.
NextRefOrder ==
    1 + (CHOOSE m \in {proc[q].refOrder : q \in Procs} :
            \A q \in Procs : proc[q].refOrder <= m)

Init ==
    /\ blobs = InitBlobs
    /\ refs = InitRefs
    /\ proc = [p \in Procs |-> IdleProc]
    /\ runs = 0
    /\ concurrent = FALSE
    /\ bundle = NoBundle

-----------------------------------------------------------------------------
(* umoci repack *)

\* RepackBaseOk without the media type check: any --from descriptor is accepted.
RepackBaseOkUnchecked(fromDescriptor) == TRUE

\* The --from descriptor must be a single image manifest.
RepackBaseOk(fromDescriptor) == fromDescriptor.mediaType = MediaTypeImageManifest

RepackLayerDescriptor(layerDigest, layerSize) ==
    [mediaType |-> MediaTypeImageLayer, digest |-> layerDigest, size |-> layerSize]

\* generator.NewFromImage, AddRootfsDiffID, Image: the new layer's digest is
\* appended to the DiffIDs and nothing else of the config changes.
RepackNewConfig(config, layerDigest) ==
    [config EXCEPT !.diffIDs = Append(@, layerDigest)]

RepackNewManifest(manifest, layerDescriptor, newConfigDigest, newConfigSize) ==
    [manifest EXCEPT !.layers = Append(@, layerDescriptor),
                     !.config = [@ EXCEPT !.digest = newConfigDigest,
                                          !.size = newConfigSize]]

\* What engine.PutBlobJSON hands back for the manifest: the stored blob's digest
\* and size, or, when the write failed, whatever accompanies the error.
RepackManifestResults(manifest, ok) ==
    IF ok THEN {[digest |-> Digest(manifest), size |-> Size(manifest)]}
    ELSE {[digest |-> EmptyDigest, size |-> 0],
          [digest |-> Digest(manifest), size |-> Size(manifest)]}

RepackNewDescriptor(newManifestDigest, newManifestSize) ==
    [mediaType |-> MediaTypeImageManifest, digest |-> newManifestDigest,
     size |-> newManifestSize]

\* RepackWriteManifest with eager deletion: superseded manifests are removed.
RepackWriteManifestEager(bl, manifest) ==
    LET nb == PutBlob(bl, manifest)
    IN [d \in {x \in DOMAIN nb : nb[x].kind # "manifest" \/ x = Digest(manifest)} |-> nb[d]]

\* The blob store after the new manifest is written.
RepackWriteManifest(bl, manifest) == PutBlob(bl, manifest)

\* RepackWriteLayer with the cleanup the code leaves as a question: the layer
\* blob is deleted again once the write has returned.
RepackWriteLayerThenDelete(bl, layer) == DeleteBlob(PutBlob(bl, layer), Digest(layer))

\* The blob store after the layer stream is written.
RepackWriteLayer(bl, layer) == PutBlob(bl, layer)

\* RepackWriteConfig with the temporary file of the write left behind: the
\* bytes are stored a second time under a name that is not their digest.
RepackWriteConfigKeepsTemp(bl, config) ==
    LET nb == PutBlob(bl, config)
    IN [d \in DOMAIN nb \cup {<<"tmp", config>>} |->
           IF d \in DOMAIN nb THEN nb[d] ELSE config]

\* The blob store after the new config is written.
RepackWriteConfig(bl, config) == PutBlob(bl, config)

\* RepackOpenManifestBlob without the defer statement.
RepackOpenManifestBlobNoDefer(pr) == [pr EXCEPT !.opened = @ \cup {"manifestBlob"}]

\* manifestBlob, err := cas.FromDescriptor(...); defer manifestBlob.Close()
RepackOpenManifestBlob(pr) == OpenDeferred(pr, "manifestBlob")

\* RepackAfterConfig with the tagging moved up: a repack with --tag goes from
\* the config write to the reference writes.
RepackAfterConfigTagsFirst(pr) ==
    [pr EXCEPT !.pc = IF pr.tag = "" THEN "r_putmanifest" ELSE "r_delref"]

\* After the config write comes the manifest write.
RepackAfterConfig(pr) == [pr EXCEPT !.pc = "r_putmanifest"]

\* RepackClobbered naming the --from reference.
RepackClobberedFrom(pr) == pr.from

\* The reference repack deletes before it writes the tag: the tag itself.
RepackClobbered(pr) == pr.tag

\* The command lines of repack: every --tag (and none) from the image's main
\* reference, every --from into one tag, and one with each mandatory argument
\* left empty.
RepackArgs ==
    {[image |-> "image", bundle |-> "bundle", from |-> "latest", tag |-> t] :
        t \in Tags \cup {""}}
    \cup {[image |-> "image", bundle |-> "bundle", from |-> f, tag |-> "new"] :
        f \in Tags}
    \cup {[image |-> "", bundle |-> "bundle", from |-> "latest", tag |-> ""],
          [image |-> "image", bundle |-> "", from |-> "latest", tag |-> ""],
          [image |-> "image", bundle |-> "bundle", from |-> "", tag |-> ""]}

RepackStart(p) ==
    /\ CanStart(p)
    /\ \E args \in Invocations(RepackArgs), ok \in BOOLEAN :
          LET imagePath == args.image
              bundlePath == args.bundle
              fromName == args.from
              tagName == args.tag
              pr == [IdleProc EXCEPT !.cmd = "repack", !.from = fromName,
                                     !.tag = tagName,
                                     !.pre = [blobs |-> blobs, refs |-> refs]]
          IN proc' = [proc EXCEPT ![p] =
                 IF imagePath = "" THEN Return(pr, "image path cannot be empty")
                 ELSE IF bundlePath = "" THEN Return(pr, "bundle path cannot be empty")
                 ELSE IF fromName = "" THEN Return(pr, "reference name cannot be empty")
                 ELSE IF ~ok THEN Return(Logged(pr, "Open", FALSE), "open")
                 ELSE [OpenDeferred(Logged(pr, "Open", TRUE), "engine")
                          EXCEPT !.pc = "r_getref"]]
    /\ runs' = runs + 1
    /\ UNCHANGED <<blobs, refs, concurrent, bundle>>

RepackGetReference(p) ==
    /\ proc[p].pc = "r_getref"
    /\ \E ok \in BOOLEAN :
          LET found == ok /\ HasReference(refs, proc[p].from)
              pr == Logged(proc[p], "GetReference", found)
          IN proc' = [proc EXCEPT ![p] =
                 IF ~found THEN Return(pr, "get reference")
                 ELSE IF ~RepackBaseOk(refs[pr.from])
                 THEN Return([pr EXCEPT !.fromDescriptor = refs[pr.from]],
                             "--from descriptor does not point to v1.MediaTypeImageManifest")
                 ELSE [pr EXCEPT !.fromDescriptor = refs[pr.from], !.pc = "r_genlayer"]]
    /\ UNCHANGED <<blobs, refs, runs, concurrent, bundle>>

\* The calls between the reference lookup and the layer write that can fail.
RepackLayerFailures == {"open mtree", "parse mtree", "check mtree", "generate layer"}

\* Open and parse the mtree manifest, check the rootfs against it and start
\* the layer stream of the differences; each of these can fail.
RepackGenerateLayer(p) ==
    /\ proc[p].pc = "r_genlayer"
    /\ \E fail \in RepackLayerFailures \cup {""}, layer \in NewLayers :
          LET pr == proc[p]
              withMfh == OpenDeferred(pr, "mfh")
              withReader == OpenDeferred(withMfh, "reader")
          IN proc' = [proc EXCEPT ![p] =
                 IF fail = "open mtree" THEN Return(pr, fail)
                 ELSE IF fail # "" THEN Return(withMfh, fail)
                 ELSE [withReader EXCEPT !.layer = layer, !.pc = "r_putblob"]]
    /\ UNCHANGED <<blobs, refs, runs, concurrent, bundle>>

RepackPutBlob(p) ==
    /\ proc[p].pc = "r_putblob"
    /\ \E ok \in BOOLEAN :
          LET pr == Logged(proc[p], "PutBlob layer", ok)
              layerDigest == Digest(pr.layer)
              layerSize == Size(pr.layer)
          IN /\ blobs' = IF ok THEN RepackWriteLayer(blobs, pr.layer) ELSE blobs
             /\ proc' = [proc EXCEPT ![p] =
                    IF ~ok THEN Return(pr, "put blob")
                    ELSE [Close(pr, "reader") EXCEPT
                              !.layerDescriptor =
                                  RepackLayerDescriptor(layerDigest, layerSize),
                              !.pc = "r_manifest"]]
    /\ UNCHANGED <<refs, runs, concurrent, bundle>>

RepackReadManifest(p) ==
    /\ proc[p].pc = "r_manifest"
    /\ \E ok \in BOOLEAN :
          LET d == proc[p].fromDescriptor.digest
              found == ok /\ HasBlob(blobs, d)
              pr == Logged(proc[p], "FromDescriptor manifest", found)
          IN proc' = [proc EXCEPT ![p] =
                 IF ~found THEN Return(pr, "get manifest blob")
                 ELSE IF blobs[d].kind # "manifest"
                 THEN Return(RepackOpenManifestBlob(pr),
                             "manifest blob type not implemented")
                 ELSE [RepackOpenManifestBlob(pr) EXCEPT !.manifest = blobs[d],
                                                         !.pc = "r_config"]]
    /\ UNCHANGED <<blobs, refs, runs, concurrent, bundle>>

RepackReadConfig(p) ==
    /\ proc[p].pc = "r_config"
    /\ \E ok \in BOOLEAN :
          LET d == proc[p].manifest.config.digest
              found == ok /\ HasBlob(blobs, d)
              pr == Logged(proc[p], "FromDescriptor config", found)
          IN proc' = [proc EXCEPT ![p] =
                 IF ~found THEN Return(pr, "get config blob")
                 ELSE IF blobs[d].kind # "config"
                 THEN Return(OpenDeferred(pr, "configBlob"),
                             "config blob type not implemented")
                 ELSE [OpenDeferred(pr, "configBlob") EXCEPT !.config = blobs[d],
                                                             !.pc = "r_putconfig"]]
    /\ UNCHANGED <<blobs, refs, runs, concurrent, bundle>>

RepackPutConfig(p) ==
    /\ proc[p].pc = "r_putconfig"
    /\ \E generated \in BOOLEAN, ok \in BOOLEAN :
          LET config == RepackNewConfig(proc[p].config, proc[p].layerDescriptor.digest)
              pr == Logged(proc[p], "PutBlobJSON config", ok)
          IN IF ~generated
             THEN /\ proc' = [proc EXCEPT ![p] = Return(@, "new generator")]
                  /\ UNCHANGED blobs
             ELSE /\ blobs' = IF ok THEN RepackWriteConfig(blobs, config) ELSE blobs
                  /\ proc' = [proc EXCEPT ![p] =
                         IF ~ok THEN Return(pr, "put config blob")
                         ELSE RepackAfterConfig([pr EXCEPT !.newConfig = config])]
    /\ UNCHANGED <<refs, runs, concurrent, bundle>>

\* The error of this PutBlobJSON is assigned and never read: the command goes
\* on with whatever digest and size came back.
RepackPutManifest(p) ==
    /\ proc[p].pc = "r_putmanifest"
    /\ \E ok \in BOOLEAN :
          LET pr == Logged(proc[p], "PutBlobJSON manifest", ok)
              manifest == RepackNewManifest(pr.manifest, pr.layerDescriptor,
                                            Digest(pr.newConfig), Size(pr.newConfig))
          IN \E res \in RepackManifestResults(manifest, ok) :
                LET done == [pr EXCEPT !.newManifest = manifest,
                                       !.newDescriptor =
                                           RepackNewDescriptor(res.digest, res.size)]
                IN /\ blobs' = IF ok THEN RepackWriteManifest(blobs, manifest) ELSE blobs
                   /\ proc' = [proc EXCEPT ![p] =
                          IF done.tag = "" THEN Return(done, "")
                          ELSE [done EXCEPT !.pc = "r_delref"]]
    /\ UNCHANGED <<refs, runs, concurrent, bundle>>

RepackDeleteReference(p) ==
    /\ proc[p].pc = "r_delref"
    /\ \E ok \in BOOLEAN :
          LET pr == Logged(proc[p], "DeleteReference", ok)
          IN /\ refs' = IF ok THEN DeleteReference(refs, RepackClobbered(pr)) ELSE refs
             /\ proc' = [proc EXCEPT ![p] =
                    IF ~ok THEN Return(pr, "delete reference")
                    ELSE [pr EXCEPT !.pc = "r_putref"]]
    /\ UNCHANGED <<blobs, runs, concurrent, bundle>>

RepackPutReference(p) ==
    /\ proc[p].pc = "r_putref"
    /\ \E ok \in BOOLEAN :
          LET pr == Logged(proc[p], "PutReference", ok)
          IN /\ refs' = IF ok THEN PutReference(refs, pr.tag, pr.newDescriptor) ELSE refs
             /\ proc' = [proc EXCEPT ![p] =
                    IF ~ok THEN Return(pr, "put reference")
                    ELSE Return([pr EXCEPT !.refOrder = NextRefOrder], "")]
    /\ UNCHANGED <<blobs, runs, concurrent, bundle>>

-----------------------------------------------------------------------------
(* umoci insert *)

\* The --history.* values a caller may pass; "" stands for a flag not given.
MetaChoices ==
    {NoMeta,
     [NoMeta EXCEPT !.created = "not-a-date"],
     [author |-> "me", comment |-> "added", created |-> "1970-01-01T00:00:00Z",
      created_by |-> "build"]}

\* time.Now(): the clock has advanced with every invocation.
Now == "now+" \o ToString(runs)

\* time.Parse(igen.ISO8601, val)
ParsesAsTime(val) == val # "not-a-date"

\* InsertResolveError with auto-selection: of several paths the first is taken.
InsertResolveErrorFirstPath(descriptorPaths) ==
    IF Len(descriptorPaths) = 0 THEN "tag not found" ELSE ""

\* The tag must resolve to exactly one descriptor path.
InsertResolveError(descriptorPaths) ==
    IF Len(descriptorPaths) = 0 THEN "tag not found"
    ELSE IF Len(descriptorPaths) # 1 THEN "tag is ambiguous"
    ELSE ""

\* InsertHistory with --history.created left unused: the entry always carries
\* the time of the run.
InsertHistoryAlwaysNow(meta, now) ==
    [created |-> now,
     created_by |-> IF meta.created_by # "" THEN meta.created_by ELSE "umoci insert",
     author |-> meta.author,
     comment |-> meta.comment,
     empty_layer |-> FALSE]

\* The history entry of the inserted layer.
InsertHistory(meta, now) ==
    [created |-> IF meta.created # "" THEN meta.created ELSE now,
     created_by |-> IF meta.created_by # "" THEN meta.created_by ELSE "umoci insert",
     author |-> meta.author,
     comment |-> meta.comment,
     empty_layer |-> FALSE]

\* mutator.Add: the working copy of the config gains the layer's DiffID and
\* the history entry.
MutatorAddConfig(config, layer, history) ==
    [config EXCEPT !.diffIDs = Append(@, DiffID(layer)),
                   !.history = Append(@, history)]

\* mutator.Commit: the new manifest keeps the base layers, gains the layer's
\* descriptor and points at the new config.
MutatorCommitManifest(manifest, layer, newConfig) ==
    [manifest EXCEPT !.layers = Append(@, Descriptor(MediaTypeImageLayer, layer)),
                     !.config = [@ EXCEPT !.digest = Digest(newConfig),
                                          !.size = Size(newConfig)]]

\* The command lines of insert: every --history.* choice on the image's main
\* tag, every tag without --history.*, and one with each positional argument
\* left empty.
InsertArgs ==
    {[file |-> "file", path |-> "/path", tag |-> "latest", meta |-> m] :
        m \in MetaChoices}
    \cup {[file |-> "file", path |-> "/path", tag |-> t, meta |-> NoMeta] : t \in Tags}
    \cup {[file |-> "", path |-> "/path", tag |-> "latest", meta |-> NoMeta],
          [file |-> "file", path |-> "", tag |-> "latest", meta |-> NoMeta]}

InsertStart(p) ==
    /\ CanStart(p)
    /\ \E args \in Invocations(InsertArgs), ok \in BOOLEAN :
          LET insertFile == args.file
              insertPath == args.path
              tagName == args.tag
              meta == args.meta
              pr == [IdleProc EXCEPT !.cmd = "insert", !.tag = tagName, !.meta = meta,
                                     !.pre = [blobs |-> blobs, refs |-> refs]]
          IN proc' = [proc EXCEPT ![p] =
                 IF insertFile = "" THEN Return(pr, "<file> cannot be empty")
                 ELSE IF insertPath = "" THEN Return(pr, "<path> cannot be empty")
                 ELSE IF ~ok THEN Return(Logged(pr, "Open", FALSE), "open CAS")
                 ELSE [OpenDeferred(Logged(pr, "Open", TRUE), "engine")
                          EXCEPT !.pc = "i_resolve"]]
    /\ runs' = runs + 1
    /\ UNCHANGED <<blobs, refs, concurrent, bundle>>

InsertResolve(p) ==
    /\ proc[p].pc = "i_resolve"
    /\ \E ok \in BOOLEAN :
          LET pr == Logged(proc[p], "ResolveReference", ok)
              descriptorPaths == ResolveReference(blobs, refs, pr.tag)
          IN proc' = [proc EXCEPT ![p] =
                 IF ~ok THEN Return(pr, "get descriptor")
                 ELSE IF InsertResolveError(descriptorPaths) # ""
                 THEN Return([pr EXCEPT !.paths = descriptorPaths],
                             InsertResolveError(descriptorPaths))
                 ELSE [pr EXCEPT !.paths = descriptorPaths, !.pc = "i_new"]]
    /\ UNCHANGED <<blobs, refs, runs, concurrent, bundle>>

\* mutate.New on the one path (obtaining the base manifest and config), the
\* id-mapping options, the layer stream of the inserted file and the history.
InsertNewMutator(p) ==
    /\ proc[p].pc = "i_new"
    /\ \E ok \in BOOLEAN, idmapOk \in BOOLEAN, layer \in NewLayers :
          LET src == proc[p].paths[1][Len(proc[p].paths[1])]
              hasManifest == HasBlob(blobs, src.digest)
                             /\ blobs[src.digest].kind = "manifest"
              hasConfig == hasManifest
                           /\ HasBlob(blobs, blobs[src.digest].config.digest)
                           /\ blobs[blobs[src.digest].config.digest].kind = "config"
              opened == ok /\ hasConfig
              pr == Logged(proc[p], "mutate.New", opened)
          IN proc' = [proc EXCEPT ![p] =
                 IF ~opened THEN Return(pr, "create mutator for base image")
                 ELSE IF ~idmapOk THEN Return(pr, "parse idmap options")
                 ELSE IF pr.meta.created # "" /\ ~ParsesAsTime(pr.meta.created)
                 THEN Return(OpenDeferred(pr, "reader"), "parsing --history.created")
                 ELSE [OpenDeferred(pr, "reader") EXCEPT !.fromDescriptor = src,
                                 !.manifest = blobs[src.digest],
                                 !.config = blobs[blobs[src.digest].config.digest],
                                 !.layer = layer,
                                 !.history = InsertHistory(pr.meta, Now),
                                 !.pc = "i_add"]]
    /\ UNCHANGED <<blobs, refs, runs, concurrent, bundle>>

\* mutator.Add changes the in-memory working copy only.
InsertAdd(p) ==
    /\ proc[p].pc = "i_add"
    /\ \E ok \in BOOLEAN :
          LET pr == Logged(proc[p], "Add", ok)
          IN proc' = [proc EXCEPT ![p] =
                 IF ~ok THEN Return(pr, "add diff layer")
                 ELSE [pr EXCEPT !.newConfig =
                                     MutatorAddConfig(pr.config, pr.layer, pr.history),
                                 !.layerDescriptor =
                                     Descriptor(MediaTypeImageLayer, pr.layer),
                                 !.pc = "i_commit_layer"]]
    /\ UNCHANGED <<blobs, refs, runs, concurrent, bundle>>

\* mutator.Commit, first write: the layer blob.
InsertCommitLayer(p) ==
    /\ proc[p].pc = "i_commit_layer"
    /\ \E ok \in BOOLEAN :
          LET pr == Logged(proc[p], "Commit layer", ok)
          IN /\ blobs' = IF ok THEN PutBlob(blobs, pr.layer) ELSE blobs
             /\ proc' = [proc EXCEPT ![p] =
                    IF ~ok THEN Return(pr, "commit mutated image")
                    ELSE [pr EXCEPT !.pc = "i_commit_config"]]
    /\ UNCHANGED <<refs, runs, concurrent, bundle>>

\* mutator.Commit, second write: the new config blob.
InsertCommitConfig(p) ==
    /\ proc[p].pc = "i_commit_config"
    /\ \E ok \in BOOLEAN :
          LET pr == Logged(proc[p], "Commit config", ok)
          IN /\ blobs' = IF ok THEN PutBlob(blobs, pr.newConfig) ELSE blobs
             /\ proc' = [proc EXCEPT ![p] =
                    IF ~ok THEN Return(pr, "commit mutated image")
                    ELSE [pr EXCEPT !.pc = "i_commit_manifest"]]
    /\ UNCHANGED <<refs, runs, concurrent, bundle>>

\* mutator.Commit, third write: the new manifest blob; the new descriptor path
\* is the new manifest's descriptor.
InsertCommitManifest(p) ==
    /\ proc[p].pc = "i_commit_manifest"
    /\ \E ok \in BOOLEAN :
          LET pr == Logged(proc[p], "Commit manifest", ok)
              manifest == MutatorCommitManifest(pr.manifest, pr.layer, pr.newConfig)
          IN /\ blobs' = IF ok THEN PutBlob(blobs, manifest) ELSE blobs
             /\ proc' = [proc EXCEPT ![p] =
                    IF ~ok THEN Return(pr, "commit mutated image")
                    ELSE [pr EXCEPT !.newManifest = manifest,
                                    !.newDescriptor =
                                        Descriptor(MediaTypeImageManifest, manifest),
                                    !.pc = "i_updateref"]]
    /\ UNCHANGED <<refs, runs, concurrent, bundle>>

InsertUpdateReference(p) ==
    /\ proc[p].pc = "i_updateref"
    /\ \E ok \in BOOLEAN :
          LET pr == Logged(proc[p], "UpdateReference", ok)
          IN /\ refs' = IF ok THEN UpdateReference(refs, pr.tag, pr.newDescriptor)
                        ELSE refs
             /\ proc' = [proc EXCEPT ![p] =
                    IF ~ok THEN Return(pr, "add new tag")
                    ELSE Return([pr EXCEPT !.refOrder = NextRefOrder], "")]
    /\ UNCHANGED <<blobs, runs, concurrent, bundle>>

-----------------------------------------------------------------------------
(* The process is killed between two steps of a command *)

Kill(p) ==
    /\ ~Stopped(p)
    /\ proc' = [proc EXCEPT ![p] = [@ EXCEPT !.pc = "killed"]]
    /\ UNCHANGED <<blobs, refs, runs, concurrent, bundle>>

\* One step of the command process p is running, or its death.
Step(p) ==
    \/ RepackStart(p)
    \/ RepackGetReference(p)
    \/ RepackGenerateLayer(p)
    \/ RepackPutBlob(p)
    \/ RepackReadManifest(p)
    \/ RepackReadConfig(p)
    \/ RepackPutConfig(p)
    \/ RepackPutManifest(p)
    \/ RepackDeleteReference(p)
    \/ RepackPutReference(p)
    \/ InsertStart(p)
    \/ InsertResolve(p)
    \/ InsertNewMutator(p)
    \/ InsertAdd(p)
    \/ InsertCommitLayer(p)
    \/ InsertCommitConfig(p)
    \/ InsertCommitManifest(p)
    \/ InsertUpdateReference(p)
    \/ Kill(p)

Next == \E p \in Procs : Step(p)

Spec == Init /\ [][Next]_vars

\* Two processes invoke commands on the same store at the same time.
InitConcurrent ==
    /\ blobs = InitBlobs
    /\ refs = InitRefs
    /\ proc = [p \in Procs |-> IdleProc]
    /\ runs = 0
    /\ concurrent = TRUE
    /\ bundle = NoBundle

SpecConcurrent == InitConcurrent /\ [][Next]_vars

-----------------------------------------------------------------------------
(* The bundle between unpack and repack: the rootfs is edited, then repack
   diffs it against the snapshot and makes the layer of the differences *)

storeVars == <<blobs, refs, proc, runs, concurrent>>

\* RepackKeywords comparing types only.
RepackKeywordsTypeOnly(spec) == spec.keywords \cap {"type"}

\* mtree.CollectUsedKeywords(spec)
RepackKeywords(spec) == spec.keywords

\* mtree.Check(fullRootfsPath, spec, keywords)
RepackDiffs(rootfs, spec) == MtreeCheck(rootfs, spec, RepackKeywords(spec))

\* RepackReader with the deletions filtered out of the changeset.
RepackReaderSkipsDeleted(rootfs, diffs) ==
    GenerateLayer(rootfs, SelectSeq(diffs, LAMBDA r : r.kind # "Deleted"))

\* layerdiff.GenerateLayer(fullRootfsPath, diffs)
RepackReader(rootfs, diffs) == GenerateLayer(rootfs, diffs)

InitBundle ==
    /\ blobs = InitBlobs
    /\ refs = InitRefs
    /\ proc = [p \in Procs |-> IdleProc]
    /\ runs = 0
    /\ concurrent = FALSE
    /\ bundle \in {UnpackedBundle(t) : t \in Trees}

\* A path, with what is under it, is removed from the rootfs.
BundleRemove(path) ==
    /\ bundle.pc = "edit"
    /\ path \in DOMAIN bundle.rootfs
    /\ bundle' = [bundle EXCEPT !.rootfs = ApplyEntry(@, Whiteout(path))]
    /\ UNCHANGED storeVars

\* A path is created or rewritten in the rootfs; a path the snapshot has and
\* the rootfs has lost is noted as re-added.
BundleWrite(path, node) ==
    /\ bundle.pc = "edit"
    /\ IF path \in DOMAIN bundle.rootfs THEN bundle.rootfs[path] # node ELSE TRUE
    /\ ValidTree(ApplyEntry(bundle.rootfs, FullEntry(path, node)))
    /\ bundle' = [bundle EXCEPT
           !.rootfs = ApplyEntry(@, FullEntry(path, node)),
           !.readded = IF path \in DOMAIN bundle.base /\ path \notin DOMAIN bundle.rootfs
                       THEN @ \cup {path} ELSE @]
    /\ UNCHANGED storeVars

\* repack parses the snapshot and checks the rootfs against it.
BundleCheck ==
    /\ bundle.pc = "edit"
    /\ bundle' = [bundle EXCEPT !.diffs = RepackDiffs(bundle.rootfs, bundle.spec),
                                !.pc = "checked"]
    /\ UNCHANGED storeVars

\* repack generates the layer of the changeset.
BundleGenerateLayer ==
    /\ bundle.pc = "checked"
    /\ bundle' = [bundle EXCEPT !.layer = RepackReader(bundle.rootfs, bundle.diffs),
                                !.pc = "packed"]
    /\ UNCHANGED storeVars

\* The layer is unpacked over a copy of the tree the snapshot was taken of.
BundleReplay ==
    /\ bundle.pc = "packed"
    /\ bundle' = [bundle EXCEPT !.replayed = ApplyLayer(bundle.base, bundle.layer),
                                !.pc = "replayed"]
    /\ UNCHANGED storeVars

NextBundle ==
    \/ \E path \in Paths : BundleRemove(path)
    \/ \E path \in Paths, node \in Nodes : BundleWrite(path, node)
    \/ BundleCheck
    \/ BundleGenerateLayer
    \/ BundleReplay

SpecBundle == InitBundle /\ [][NextBundle]_vars

-----------------------------------------------------------------------------
(* Vocabulary of the properties *)

Mutations == {"repack", "insert"}

Succeeded(p) == proc[p].pc = "done" /\ proc[p].ret = "ok"

Failed(p) == proc[p].pc = "done" /\ proc[p].ret = "err"

WriteOps ==
    {"PutBlob layer", "PutBlobJSON config", "PutBlobJSON manifest",
     "DeleteReference", "PutReference", "Add", "Commit layer", "Commit config",
     "Commit manifest", "UpdateReference"}

ReferenceWrites == {"PutReference", "UpdateReference"}

LastOp(p) == proc[p].log[Len(proc[p].log)]

\* The command's final reference write has completed.
FinalReferenceWritten(p) ==
    /\ proc[p].log # <<>>
    /\ LastOp(p).op \in ReferenceWrites
    /\ LastOp(p).ok

\* Every blob stored when the command started is stored with the same bytes.
BlobsIntact(p) ==
    \A d \in DOMAIN proc[p].pre.blobs :
        HasBlob(blobs, d) /\ blobs[d] = proc[p].pre.blobs[d]

\* Every reference present when the command started has the same target.
ReferencesIntact(p) ==
    \A n \in DOMAIN proc[p].pre.refs :
        HasReference(refs, n) /\ refs[n] = proc[p].pre.refs[n]

\* The image a descriptor names is stored whole: manifest, config and layers.
ImageStored(bl, desc) ==
    /\ HasBlob(bl, desc.digest)
    /\ bl[desc.digest].kind = "manifest"
    /\ HasBlob(bl, bl[desc.digest].config.digest)
    /\ \A i \in 1..Len(bl[desc.digest].layers) :
           HasBlob(bl, bl[desc.digest].layers[i].digest)

NonEmptyHistory(config) ==
    Cardinality({i \in 1..Len(config.history) : ~config.history[i].empty_layer})

\* len(diffIDs) == count(layers) == count(history entries with emptyLayer false)
CountsAgree(manifest, config) ==
    /\ Len(config.diffIDs) = Len(manifest.layers)
    /\ Len(manifest.layers) = NonEmptyHistory(config)

\* A mutation has completed and its new manifest and config are in the store.
Mutated(p) ==
    /\ proc[p].cmd \in Mutations
    /\ Succeeded(p)
    /\ ImageStored(blobs, proc[p].newDescriptor)

NewManifestOf(p) == blobs[proc[p].newDescriptor.digest]

NewConfigOf(p) == blobs[NewManifestOf(p).config.digest]

-----------------------------------------------------------------------------
(* Properties *)

\* C1: when a command is killed between two of its store operations, every
\* reference that existed before it still has its pre-mutation target (or,
\* once the final reference write has completed, the complete new manifest),
\* and every blob is still there whole; no pre-existing tag is absent.
C1_KillLeavesReferences ==
    \A p \in Procs :
        proc[p].pc = "killed" =>
            /\ BlobsIntact(p)
            /\ \A n \in DOMAIN proc[p].pre.refs :
                   /\ HasReference(refs, n)
                   /\ \/ refs[n] = proc[p].pre.refs[n]
                      \/ /\ FinalReferenceWritten(p)
                         /\ refs[n] = proc[p].newDescriptor
                         /\ ImageStored(blobs, refs[n])

\* C2: when a command returns an error because one of its store writes
\* failed, every blob and every reference that existed before the invocation
\* is still there with the same bytes and the same target.
C2_FailedWriteLeavesStore ==
    \A p \in Procs :
        (Failed(p) /\ proc[p].log # <<>> /\ LastOp(p).op \in WriteOps /\ ~LastOp(p).ok)
            => BlobsIntact(p) /\ ReferencesIntact(p)

\* C3: no error is swallowed: a store operation that failed is the last one
\* the command performs, and the command returns an error.
C3_NoErrorSwallowed ==
    \A p \in Procs :
        \A i \in 1..Len(proc[p].log) :
            ~proc[p].log[i].ok =>
                /\ i = Len(proc[p].log)
                /\ Failed(p)

\* C4: after a completed mutation of a base image whose counts agree, the
\* new image's diffIDs, layers and non-empty history entries agree in number.
C4_CountsAgreeAfterMutation ==
    \A p \in Procs :
        (Mutated(p) /\ CountsAgree(proc[p].manifest, proc[p].config))
            => CountsAgree(NewManifestOf(p), NewConfigOf(p))

\* C5: a completed mutation that adds layer X yields a manifest with the
\* base layers followed by X's descriptor, pointing at the new config, whose
\* history is the base history plus one entry (the given one for insert) and
\* whose diffIDs are the base diffIDs plus X's diffID.
C5_AppendsLayerHistoryDiffID ==
    \A p \in Procs :
        Mutated(p) =>
            /\ NewManifestOf(p).layers =
                   Append(proc[p].manifest.layers,
                          Descriptor(MediaTypeImageLayer, proc[p].layer))
            /\ NewManifestOf(p).config =
                   Descriptor(MediaTypeImageConfig, NewConfigOf(p))
            /\ NewConfigOf(p) = proc[p].newConfig
            /\ Len(NewConfigOf(p).history) = Len(proc[p].config.history) + 1
            /\ SubSeq(NewConfigOf(p).history, 1, Len(proc[p].config.history)) =
                   proc[p].config.history
            /\ proc[p].cmd = "insert" =>
                   NewConfigOf(p).history[Len(NewConfigOf(p).history)] = proc[p].history
            /\ NewConfigOf(p).diffIDs =
                   Append(proc[p].config.diffIDs, DiffID(proc[p].layer))

\* C6: every completed mutation leaves the base history as a prefix of the
\* new history and makes it exactly one entry longer.
C6_HistoryGrowsByOne ==
    \A p \in Procs :
        Mutated(p) =>
            /\ Len(NewConfigOf(p).history) = Len(proc[p].config.history) + 1
            /\ \A i \in 1..Len(proc[p].config.history) :
                   /\ i <= Len(NewConfigOf(p).history)
                   /\ NewConfigOf(p).history[i] = proc[p].config.history[i]


\* C7: no stored blob is deleted or overwritten with different bytes by any
\* step of any command: the blob store only grows.
C7_BlobsOnlyGrow ==
    [][\A d \in DOMAIN blobs : HasBlob(blobs', d) /\ blobs'[d] = blobs[d]]_vars

\* A second mutation in a row has completed and added blobs to a store that
\* the first had already extended.
C7_Witness ==
    \E p \in Procs :
        /\ Mutated(p)
        /\ DOMAIN proc[p].pre.blobs # DOMAIN InitBlobs
        /\ DOMAIN blobs # DOMAIN proc[p].pre.blobs

\* C8: the diffID a mutation appends to the config is the digest of the new
\* layer's uncompressed content, the layer descriptor carries the digest of
\* the blob as stored, and the two differ when the stored stream is compressed.
C8_DiffIDIsUncompressedDigest ==
    \A p \in Procs :
        (proc[p].cmd \in Mutations /\ proc[p].newConfig # NoBlob) =>
            LET diffIDs == proc[p].newConfig.diffIDs
            IN /\ diffIDs # <<>>
               /\ diffIDs[Len(diffIDs)] = DiffID(proc[p].layer)
               /\ proc[p].layerDescriptor.digest = Digest(proc[p].layer)
               /\ proc[p].layer.compressed =>
                      diffIDs[Len(diffIDs)] # proc[p].layerDescriptor.digest

\* The descriptor paths the tag of an insert designated when it started.
InsertPathsAtStart(p) ==
    ResolveReference(proc[p].pre.blobs, proc[p].pre.refs, proc[p].tag)

Resolved(p) ==
    /\ proc[p].cmd = "insert"
    /\ Len(proc[p].log) >= 2
    /\ proc[p].log[2].op = "ResolveReference"
    /\ proc[p].log[2].ok

\* C9: an insert whose tag resolves to no path fails with tag-not-found, one
\* whose tag resolves to several paths fails with tag-is-ambiguous, and in both
\* cases no mutator is created and the store is as it was.
C9_InsertNeedsOnePath ==
    \A p \in Procs :
        (Resolved(p) /\ Len(InsertPathsAtStart(p)) # 1) =>
            /\ Failed(p)
            /\ proc[p].err = IF Len(InsertPathsAtStart(p)) = 0 THEN "tag not found"
                             ELSE "tag is ambiguous"
            /\ \A i \in 1..Len(proc[p].log) : proc[p].log[i].op # "mutate.New"
            /\ proc[p].layer = NoBlob
            /\ blobs = proc[p].pre.blobs
            /\ refs = proc[p].pre.refs

\* An insert on a tag that designates a manifest list of two manifests.
C9_Witness ==
    \E p \in Procs :
        /\ Resolved(p)
        /\ Len(InsertPathsAtStart(p)) = 2
        /\ proc[p].pc = "done"

\* The --from reference of a repack was missing, or not an image manifest,
\* when the command looked it up.
BadBase(p) ==
    /\ proc[p].cmd = "repack"
    /\ Len(proc[p].log) >= 2
    /\ proc[p].log[2].op = "GetReference"
    /\ \/ ~HasReference(proc[p].pre.refs, proc[p].from)
       \/ proc[p].pre.refs[proc[p].from].mediaType # MediaTypeImageManifest

\* C10: a repack whose --from reference is missing or does not name an image
\* manifest returns an error before a layer is generated or stored, with the
\* blob store and the reference store as they were.
C10_RepackRefusesBadBase ==
    \A p \in Procs :
        BadBase(p) =>
            /\ Failed(p)
            /\ proc[p].layer = NoBlob
            /\ Len(proc[p].log) = 2
            /\ blobs = proc[p].pre.blobs
            /\ refs = proc[p].pre.refs

\* A repack from a reference that names a manifest list.
C10_Witness ==
    \E p \in Procs :
        /\ BadBase(p)
        /\ HasReference(proc[p].pre.refs, proc[p].from)
        /\ proc[p].fromDescriptor.mediaType = MediaTypeImageIndex
        /\ proc[p].pc = "done"

\* The blobs a command has written so far: each successful blob write of its
\* log, with the bytes it handed to the store.
BlobWrites ==
    {"PutBlob layer", "PutBlobJSON config", "PutBlobJSON manifest",
     "Commit layer", "Commit config", "Commit manifest"}

WrittenBytes(pr, op) ==
    IF op \in {"PutBlob layer", "Commit layer"} THEN pr.layer
    ELSE IF op \in {"PutBlobJSON config", "Commit config"} THEN pr.newConfig
    ELSE pr.newManifest

PutBy(p) ==
    {WrittenBytes(proc[p], proc[p].log[i].op) :
        i \in {j \in 1..Len(proc[p].log) :
                  proc[p].log[j].op \in BlobWrites /\ proc[p].log[j].ok}}

PutsAgain(p) ==
    LET lg == proc'[p].log
        last == lg[Len(lg)]
    IN /\ Len(lg) = Len(proc[p].log) + 1
       /\ last.op \in BlobWrites
       /\ last.ok
       /\ HasBlob(blobs, Digest(WrittenBytes(proc'[p], last.op)))

\* No bytes are stored under two names.
OneCopy(bl) == \A d1, d2 \in DOMAIN bl : bl[d1] = bl[d2] => d1 = d2

DiffsOf(path) == {i \in 1..Len(bundle.diffs) : bundle.diffs[i].path = path}

KindOf(path) == bundle.diffs[CHOOSE i \in DOMAIN bundle.diffs : bundle.diffs[i].path = path].kind

\* C13: the layer made of the changeset of a rootfs against its snapshot,
\* unpacked over a copy of the tree the snapshot was taken of, gives the
\* rootfs: same paths, same type and content at every path.
C13_ChangesetRoundTrip ==
    bundle.pc = "replayed" => bundle.replayed = bundle.rootfs

\* A replay of a layer that carries a whiteout for a deleted path, a whiteout
\* and a full entry for a path that changed type, and a full entry for a
\* modified or added path.
C13_Witness ==
    /\ bundle.pc = "replayed"
    /\ bundle.replayed = bundle.rootfs
    /\ \E i, j, k \in DOMAIN bundle.diffs :
           /\ bundle.diffs[i].kind = "Deleted"
           /\ bundle.diffs[j].kind = "TypeChanged"
           /\ bundle.diffs[k].kind \in {"Modified", "Added"}
    /\ Len(bundle.layer) = 4

\* C14: whatever the edits were, the changeset has at most one record per
\* path; a path of the snapshot that was removed and created again is
\* Modified when it has its type and another content, TypeChanged when it has
\* another type, and a path that is as the snapshot has it has no record; a
\* path only the rootfs has is Added, a path only the snapshot has is Deleted.
C14_ClassifiedByFinalTree ==
    bundle.pc \in {"checked", "packed", "replayed"} =>
        \A path \in Paths :
            /\ Cardinality(DiffsOf(path)) <= 1
            /\ (path \in DOMAIN bundle.base /\ path \in DOMAIN bundle.rootfs) =>
                   IF bundle.base[path] = bundle.rootfs[path] THEN DiffsOf(path) = {}
                   ELSE /\ DiffsOf(path) # {}
                        /\ KindOf(path) =
                               IF bundle.base[path].type = bundle.rootfs[path].type
                               THEN "Modified" ELSE "TypeChanged"
            /\ (path \notin DOMAIN bundle.base /\ path \notin DOMAIN bundle.rootfs) =>
                   DiffsOf(path) = {}
            /\ (path \notin DOMAIN bundle.base /\ path \in DOMAIN bundle.rootfs) =>
                   (DiffsOf(path) # {} /\ KindOf(path) = "Added")
            /\ (path \in DOMAIN bundle.base /\ path \notin DOMAIN bundle.rootfs) =>
                   (DiffsOf(path) # {} /\ KindOf(path) = "Deleted")

\* A file was removed and created again with another content, another was
\* removed and created again as it was, and the rootfs has been checked.
C14_Witness ==
    /\ bundle.pc = "checked"
    /\ \E p1, p2 \in bundle.readded :
           /\ p1 # p2
           /\ bundle.base[p1].type = "file"
           /\ bundle.rootfs[p1].type = "file"
           /\ bundle.base[p1] # bundle.rootfs[p1]
           /\ KindOf(p1) = "Modified"
           /\ bundle.base[p2] = bundle.rootfs[p2]

\* C15: when repack or insert has returned, on whatever path, every handle
\* it opened (CAS engine, mtree file, layer reader, manifest and config blob
\* handles) has been closed, and the CAS engine has been closed exactly once.
C15_HandlesClosedOnReturn ==
    \A p \in Procs :
        proc[p].pc = "done" =>
            /\ \A h \in proc[p].opened : proc[p].closed[h] >= 1
            /\ "engine" \in proc[p].opened => proc[p].closed["engine"] = 1

\* A repack that had opened all five handles returned an error: the engine,
\* the mtree file and both blob handles were closed once by their defers, the
\* layer reader once after the layer write and once more by its defer.
C15_Witness ==
    \E p \in Procs :
        /\ proc[p].cmd = "repack"
        /\ Failed(p)
        /\ proc[p].opened = Handles
        /\ proc[p].closed["engine"] = 1
        /\ proc[p].closed["reader"] = 2

\* The blob a reference names is stored, with the size the reference gives.
TargetStored(bl, desc) ==
    HasBlob(bl, desc.digest) /\ desc.size = Size(bl[desc.digest])

\* C16: every reference in the store names a stored blob of the size it
\* gives; when it names an image manifest, the manifest's config and layers
\* are stored; when it names a manifest list, so is every listed image.
C16_ReferencesResolve ==
    \A n \in DOMAIN refs :
        /\ TargetStored(blobs, refs[n])
        /\ refs[n].mediaType = MediaTypeImageManifest => ImageStored(blobs, refs[n])
        /\ refs[n].mediaType = MediaTypeImageIndex =>
               \A i \in 1..Len(blobs[refs[n].digest].manifests) :
                   ImageStored(blobs, blobs[refs[n].digest].manifests[i])

\* The place of a store write in the order of a mutation: layer blob, config
\* blob, manifest blob, then the reference.
Rank(op) ==
    CASE op \in {"PutBlob layer", "Commit layer"} -> 1
      [] op \in {"PutBlobJSON config", "Commit config"} -> 2
      [] op \in {"PutBlobJSON manifest", "Commit manifest"} -> 3
      [] op \in {"DeleteReference", "PutReference", "UpdateReference"} -> 4
      [] OTHER -> 0

\* C17: in the log of every command the layer write comes before the config
\* write, the config write before the manifest write, each is issued once,
\* and a reference is deleted or written only after all three were issued.
C17_WritesInOrder ==
    \A p \in Procs :
        LET lg == proc[p].log
        IN /\ \A i, j \in 1..Len(lg) :
                  (i < j /\ Rank(lg[i].op) > 0 /\ Rank(lg[j].op) > 0) =>
                      /\ Rank(lg[i].op) <= Rank(lg[j].op)
                      /\ Rank(lg[i].op) = Rank(lg[j].op) => Rank(lg[j].op) = 4
           /\ \A j \in 1..Len(lg) :
                  Rank(lg[j].op) = 4 =>
                      \A r \in 1..3 : \E i \in 1..(j - 1) : Rank(lg[i].op) = r

\* A repack with --tag has issued its three blob writes and then deleted and
\* written the reference.
C17_Witness ==
    \E p \in Procs :
        /\ proc[p].cmd = "repack"
        /\ Len(proc[p].log) = 9
        /\ proc[p].log[9].op = "PutReference"
        /\ proc[p].log[8].op = "DeleteReference"
        /\ proc[p].log[7].op = "PutBlobJSON manifest"

\* C18: a command changes no reference but the tag it was given: every other
\* name (every name, for a repack without --tag; the --from name, when it is
\* not the tag) is present exactly when it was at the start, with the target
\* it had.
C18_OnlyTheTagChanges ==
    \A p \in Procs :
        proc[p].cmd \in Mutations =>
            \A n \in Tags :
                n # proc[p].tag =>
                    /\ HasReference(refs, n) <=> HasReference(proc[p].pre.refs, n)
                    /\ HasReference(refs, n) => refs[n] = proc[p].pre.refs[n]

\* A repack from one reference with another name as --tag has written the
\* tag and left the --from reference with its target.
C18_Witness ==
    \E p \in Procs :
        /\ proc[p].cmd = "repack"
        /\ Succeeded(p)
        /\ proc[p].from = "latest"
        /\ proc[p].tag = "new"
        /\ HasReference(refs, "new")
        /\ refs["new"] = proc[p].newDescriptor
        /\ refs["latest"] = proc[p].pre.refs["latest"]

\* Both processes have run a mutation of the same tag to a successful return.
BothSucceeded ==
    /\ \A p \in Procs : proc[p].cmd \in Mutations /\ Succeeded(p)
    /\ proc["p1"].tag = proc["p2"].tag

\* The process whose reference write came last.
LastWriter == CHOOSE p \in Procs : \A q \in Procs : proc[q].refOrder <= proc[p].refOrder

\* C19: when two concurrent mutations of one tag have both returned success,
\* the tag names the manifest of the one whose reference write came last,
\* that manifest, its config and its layers are stored with the bytes that
\* mutation wrote, and while a command is running it always has a step it
\* can take, whatever the other is doing.
C19_LastReferenceWriteWins ==
    /\ BothSucceeded =>
           LET w == LastWriter
               tag == proc[w].tag
           IN /\ HasReference(refs, tag)
              /\ refs[tag] = proc[w].newDescriptor
              /\ ImageStored(blobs, refs[tag])
              /\ blobs[refs[tag].digest] = proc[w].newManifest
              /\ blobs[proc[w].newManifest.config.digest] = proc[w].newConfig
              /\ blobs[Digest(proc[w].layer)] = proc[w].layer
    /\ \A p \in Procs : ~Stopped(p) => ENABLED Step(p)

\* Two runs of one command with the same arguments and the same input files,
\* each of which read the same base image from the store and completed.
SameRunTwice(p, q) ==
    /\ p # q
    /\ Mutated(p) /\ Mutated(q)
    /\ proc[p].cmd = proc[q].cmd
    /\ proc[p].from = proc[q].from
    /\ proc[p].tag = proc[q].tag
    /\ proc[p].meta = proc[q].meta
    /\ proc[p].layer = proc[q].layer
    /\ proc[p].fromDescriptor = proc[q].fromDescriptor
    /\ proc[p].manifest = proc[q].manifest
    /\ proc[p].config = proc[q].config

SameDigests(p, q) ==
    /\ proc[p].layerDescriptor.digest = proc[q].layerDescriptor.digest
    /\ Digest(proc[p].newConfig) = Digest(proc[q].newConfig)
    /\ proc[p].newDescriptor.digest = proc[q].newDescriptor.digest

=============================================================================
